---- MODULE Spec2Model ----
(***************************************************************************)
(* A model of genome.py: the Genome class (speciation distance, the five   *)
(* mutation operators and mutate) and the crossover function.              *)
(*                                                                         *)
(* The Network, NodeGene and ConnectionGene classes live in network.py and *)
(* gene.py, which genome.py imports; their operations are modelled from    *)
(* the design document (sections 3 and 6).                                 *)
(***************************************************************************)
EXTENDS Integers, Sequences, FiniteSets, TLC

\* ------------------------------------------------------------------ bounds

\* Total number of mutation calls made on the two genomes in a run.
MaxCalls == 2
\* Total number of mutation calls made before a crossover or a species test.
MaxCrossCalls == 1
\* Largest max_attemps a caller passes to mutate_add_conn explicitly.
MaxAttempts == 2
\* Default of mutate_add_conn's max_attemps parameter (used by mutate).
DefaultMaxAttempts == 10

\* Construction arguments (num_inputs, num_outputs) and activations drawn for a genome.
\* The first genome is constructed with FirstShape and FirstActivation.
Shapes == {<<1, 1>>, <<1, 2>>}
Activations == {"sigmoid", "tanh"}
FirstShape == <<1, 2>>
FirstActivation == "sigmoid"
\* Values a Gaussian sample (np.random.normal) is drawn from.
Samples == {0, 1}
\* Fitness values the caller assigns.
FitnessVals == {0, 1}
\* Configurations handed to are_same_species.
Configs ==
    { [unmatched_genes_coeff |-> 1, weight_diff_coeff |-> 2, compatibility_threshold |-> 1],
      [unmatched_genes_coeff |-> 2, weight_diff_coeff |-> 1, compatibility_threshold |-> 1],
      [unmatched_genes_coeff |-> 1, weight_diff_coeff |-> 0, compatibility_threshold |-> 2] }

GenomeIds == {1, 2}

VARIABLES
    genomes,    \* GenomeIds -> Genome (its network's fields inlined)
    registry,   \* the innovation registry: the (start,end) pairs seen, in order
    calls,      \* number of mutation calls made so far
    ret         \* the last call: its name, arguments and returned value

vars == <<genomes, registry, calls, ret>>

\* ----------------------------------------------------------- gene registry

RECURSIVE IndexOf(_, _, _)
IndexOf(seq, x, i) ==
    IF i > Len(seq) THEN 0
    ELSE IF seq[i] = x THEN i ELSE IndexOf(seq, x, i + 1)

\* The registry remembers a pair the first time it is seen.
Register(reg, pair) ==
    IF IndexOf(reg, pair, 1) = 0 THEN Append(reg, pair) ELSE reg

\* The innovation number of a registered pair: stable across genomes.
InnovOf(reg, pair) == IndexOf(reg, pair, 1)

\* ------------------------------------------------------------ gene records

NodeGene(index, type, bias) == [index |-> index, type |-> type, bias |-> bias]

ConnectionGene(start, end, innov, weight) ==
    [start |-> start, end |-> end, innov |-> innov, enabled |-> TRUE, weight |-> weight]

\* ---------------------------------------------------------------- Network

\* Outputs occupy [0, num_out), inputs [num_out, num_out+num_in).
BaseNodes(num_in, num_out) ==
    [k \in 1..(num_in + num_out) |->
        IF k <= num_out THEN NodeGene(k - 1, "OUTPUT", 0)
        ELSE NodeGene(k - 1, "INPUT", 0)]

\* The input->output pairs of a fresh network, outputs varying fastest.
FreshPairs(num_in, num_out) ==
    [k \in 1..(num_in * num_out) |->
        <<num_out + ((k - 1) \div num_out), (k - 1) % num_out>>]

RECURSIVE RegisterAll(_, _, _)
RegisterAll(reg, pairs, k) ==
    IF k > Len(pairs) THEN reg
    ELSE RegisterAll(Register(reg, pairs[k]), pairs, k + 1)

\* Network(num_in, num_out, activation): inputs fully connected to outputs.
FreshConns(num_in, num_out, reg) ==
    LET pairs == FreshPairs(num_in, num_out)
    IN  [k \in 1..Len(pairs) |->
            ConnectionGene(pairs[k][1], pairs[k][2], InnovOf(reg, pairs[k]), 0)]

\* Genome.__init__ with init_network=True.
NewGenome(num_in, num_out, activation, reg) ==
    [ num_in     |-> num_in,
      num_out    |-> num_out,
      activation |-> activation,
      node_genes |-> BaseNodes(num_in, num_out),
      conn_genes |-> FreshConns(num_in, num_out, reg),
      species    |-> 0,
      fitness    |-> 0 ]

\* Genome.create_from_network(network)
create_from_network(num_in, num_out, activation, node_genes, conn_genes) ==
    [ num_in     |-> num_in,
      num_out    |-> num_out,
      activation |-> activation,
      node_genes |-> node_genes,
      conn_genes |-> conn_genes,
      species    |-> 0,
      fitness    |-> 0 ]

disable_conn(g, idx) == [g EXCEPT !.conn_genes[idx].enabled = FALSE]

enable_conn(g, idx) == [g EXCEPT !.conn_genes[idx].enabled = TRUE]

set_weight(g, idx, w) == [g EXCEPT !.conn_genes[idx].weight = w]

\* gen_node: allocates the next hidden node.
gen_node(g) ==
    [g EXCEPT !.node_genes = Append(@, NodeGene(Len(@), "HIDDEN", 0))]

\* Network.add_conn(gene, weight_var): appends the gene with a sampled weight.
net_add_conn(g, start, end, innov, w) ==
    [g EXCEPT !.conn_genes = Append(@, ConnectionGene(start, end, innov, w))]

has_conn(g, start, end) ==
    \E k \in 1..Len(g.conn_genes) :
        g.conn_genes[k].start = start /\ g.conn_genes[k].end = end

has_node(g, index) ==
    \E k \in 1..Len(g.node_genes) : g.node_genes[k].index = index

has_weight(g, innov) ==
    \E k \in 1..Len(g.conn_genes) : g.conn_genes[k].innov = innov

Innovs(g) == {g.conn_genes[k].innov : k \in 1..Len(g.conn_genes)}

SetMin(S) == CHOOSE x \in S : \A y \in S : x <= y
SetMax(S) == CHOOSE x \in S : \A y \in S : x >= y

\* get_weight_innov_interval: (min, max) innovation present in the topology.
get_weight_innov_interval(g) == <<SetMin(Innovs(g)), SetMax(Innovs(g))>>

NoGene == [innov |-> 0]

RECURSIVE FindGene(_, _, _)
FindGene(conns, innov, k) ==
    IF k > Len(conns) THEN NoGene
    ELSE IF conns[k].innov = innov THEN conns[k] ELSE FindGene(conns, innov, k + 1)

\* get_conn_gene(innov): the gene with that innovation number, or None.
get_conn_gene(g, innov) == FindGene(g.conn_genes, innov, 1)

\* get_num_unmatched_node_genes: node genes present in exactly one topology.
NodeIndices(g) == {g.node_genes[k].index : k \in 1..Len(g.node_genes)}

get_num_unmatched_node_genes(g, other) ==
    Cardinality((NodeIndices(g) \ NodeIndices(other)) \cup
                (NodeIndices(other) \ NodeIndices(g)))

\* ------------------------------------------------------- mutation operators

\* Mutant: the chosen connection is left as it was.
SplitConn_NoDisable(g, conn_idx) == g

\* Line 60: the chosen connection is disabled.
SplitConn(g, conn_idx) == disable_conn(g, conn_idx)

\* Lines 63 and 65: the endpoints of the two connections formed around the new node.
first_conn(conn, new_node_idx) == <<conn.start, new_node_idx>>

second_conn(conn, new_node_idx) == <<new_node_idx, conn.end>>

\* Lines 58-67 for one choice of conn_idx and of the two sampled weights.
AddNodeAt(g, reg, conn_idx, w1, w2) ==
    LET conn == g.conn_genes[conn_idx]
        g1 == SplitConn(g, conn_idx)
        g2 == gen_node(g1)
        new_node_idx == g2.node_genes[Len(g2.node_genes)].index
        fc == first_conn(conn, new_node_idx)
        reg1 == Register(reg, fc)
        g3 == net_add_conn(g2, fc[1], fc[2], InnovOf(reg1, fc), w1)
        sc == second_conn(conn, new_node_idx)
        reg2 == Register(reg1, sc)
        g4 == net_add_conn(g3, sc[1], sc[2], InnovOf(reg2, sc), w2)
    IN  [g |-> g4, reg |-> reg2, none |-> FALSE, conn_idx |-> conn_idx, pairs |-> <<fc, sc>>]

\* mutate_add_node(configs): every outcome of its random choices.
mutate_add_node(g, reg) ==
    IF Len(g.conn_genes) = 0
    THEN {[g |-> g, reg |-> reg, none |-> TRUE, conn_idx |-> 0, pairs |-> <<>>]}
    ELSE {AddNodeAt(g, reg, conn_idx, w1, w2) :
            conn_idx \in 1..Len(g.conn_genes), w1 \in Samples, w2 \in Samples}

\* Line 80: a connection cannot stem from an output node.
start_valid_interval(g) == g.num_out .. (Len(g.node_genes) - 1)

\* Lines 83-89: the ending node is an output or, when there are hidden nodes, a hidden node.
end_valid_intervals(g) ==
    IF g.node_genes[Len(g.node_genes)].type = "HIDDEN"
    THEN {0 .. (g.num_out - 1), (g.num_in + g.num_out) .. (Len(g.node_genes) - 1)}
    ELSE {0 .. (g.num_out - 1)}

\* Mutant: a candidate that already exists is accepted.
IsValidCandidate_NoDuplicateCheck(g, start_idx, end_idx) == start_idx > end_idx

\* Line 96: the candidate is new and runs from a higher to a lower index.
IsValidCandidate(g, start_idx, end_idx) ==
    ~has_conn(g, start_idx, end_idx) /\ start_idx > end_idx

\* Mutant: one draw too many.
LoopContinues_OffByOne(valid, attempts, max_attemps) == ~valid /\ attempts <= max_attemps

\* Line 92: the loop's condition.
LoopContinues(valid, attempts, max_attemps) == ~valid /\ attempts < max_attemps

\* Lines 93-97: one iteration, for every draw of randint and choice.
LoopBody(g, st) ==
    { [valid     |-> IsValidCandidate(g, start_idx, end_idx),
       attempts  |-> st.attempts + 1,
       start_idx |-> start_idx,
       end_idx   |-> end_idx] :
        start_idx \in start_valid_interval(g),
        end_idx \in UNION end_valid_intervals(g) }

\* Lines 91-97: the states in which the loop can be left.
RECURSIVE RunLoop(_, _, _)
RunLoop(g, S, max_attemps) ==
    LET T == UNION { IF LoopContinues(st.valid, st.attempts, max_attemps)
                     THEN LoopBody(g, st) ELSE {st} : st \in S }
    IN  IF T = S THEN S ELSE RunLoop(g, T, max_attemps)

LoopExits(g, max_attemps) ==
    RunLoop(g, {[valid |-> FALSE, attempts |-> 0, start_idx |-> -1, end_idx |-> -1]},
            max_attemps)

\* Lines 99-104 for one exit of the loop and one sampled weight.
AddConnAfter(g, reg, st, w) ==
    IF ~st.valid
    THEN [g |-> g, reg |-> reg, formed |-> FALSE, pair |-> <<-1, -1>>,
          attempts |-> st.attempts]
    ELSE LET pair == <<st.start_idx, st.end_idx>>
             reg1 == Register(reg, pair)
         IN  [g |-> net_add_conn(g, pair[1], pair[2], InnovOf(reg1, pair), w),
              reg |-> reg1, formed |-> TRUE, pair |-> pair, attempts |-> st.attempts]

\* mutate_add_conn(configs, max_attemps): every outcome of its random choices.
mutate_add_conn(g, reg, max_attemps) ==
    {AddConnAfter(g, reg, st, w) : st \in LoopExits(g, max_attemps), w \in Samples}

\* mutate_change_weight(configs)
mutate_change_weight(g) ==
    IF Len(g.conn_genes) = 0 THEN {g}
    ELSE {set_weight(g, conn_idx, w) : conn_idx \in 1..Len(g.conn_genes), w \in Samples}

\* mutate_change_threshold(configs)
mutate_change_threshold(g) ==
    {[g EXCEPT !.node_genes[node_idx].bias = b] :
        node_idx \in 1..Len(g.node_genes), b \in Samples}

\* Lines 128-131 for one choice of conn_gene_idx.
ToggleAt(g, conn_gene_idx) ==
    IF g.conn_genes[conn_gene_idx].enabled
    THEN disable_conn(g, conn_gene_idx)
    ELSE enable_conn(g, conn_gene_idx)

\* mutate_toggle_gene()
mutate_toggle_gene(g) ==
    IF Len(g.conn_genes) = 0 THEN {g}
    ELSE {ToggleAt(g, conn_gene_idx) : conn_gene_idx \in 1..Len(g.conn_genes)}

\* Lines 152-155: the add_conn trial of mutate, from a genome, a registry and the list so far.
MutateConnStep(s, fires) ==
    IF ~fires THEN {s}
    ELSE {[g |-> o.g, reg |-> o.reg,
           conns |-> IF o.formed THEN Append(s.conns, o.pair) ELSE s.conns] :
            o \in mutate_add_conn(s.g, s.reg, DefaultMaxAttempts)}

\* Lines 156-157: the change_weight trial.
MutateWeightStep(S, fires) ==
    IF ~fires THEN S
    ELSE UNION {{[s EXCEPT !.g = g2] : g2 \in mutate_change_weight(s.g)} : s \in S}

\* Lines 158-159: the change_threshold trial.
MutateThresholdStep(S, fires) ==
    IF ~fires THEN S
    ELSE UNION {{[s EXCEPT !.g = g2] : g2 \in mutate_change_threshold(s.g)} : s \in S}

\* Lines 160-161: the toggle_gene trial.
MutateToggleStep(S, fires) ==
    IF ~fires THEN S
    ELSE UNION {{[s EXCEPT !.g = g2] : g2 \in mutate_toggle_gene(s.g)} : s \in S}

\* mutate(configs): every outcome, for one outcome t of the five Bernoulli trials.
\* Line 148 calls mutate_add_node without its required configs argument: the call
\* raises TypeError before mutate_add_node's body runs.
mutate(g, reg, t) ==
    IF t[1]
    THEN {[g |-> g, reg |-> reg, conns |-> <<>>, status |-> "TypeError"]}
    ELSE LET s0 == [g |-> g, reg |-> reg, conns |-> <<>>]
             S2 == MutateConnStep(s0, t[2])
             S3 == MutateWeightStep(S2, t[3])
             S4 == MutateThresholdStep(S3, t[4])
             S5 == MutateToggleStep(S4, t[5])
         IN  {[g |-> s.g, reg |-> s.reg, conns |-> s.conns, status |-> "ok"] : s \in S5}

\* -------------------------------------------------------- speciation distance

\* Lines 30-35: the pairs of connection genes with equal innovation number.
SharedPairs(g, other) ==
    {p \in (1..Len(g.conn_genes)) \X (1..Len(other.conn_genes)) :
        g.conn_genes[p[1]].innov = other.conn_genes[p[2]].innov}

\* Line 35: what one shared pair adds to diff.
WeightTerm(w, other_w) == w - other_w

\* Lines 30-35: diff after the two loops.
RECURSIVE SumOver(_, _, _)
SumOver(P, g, other) ==
    IF P = {} THEN 0
    ELSE LET p == CHOOSE q \in P : TRUE
         IN  WeightTerm(g.conn_genes[p[1]].weight, other.conn_genes[p[2]].weight)
             + SumOver(P \ {p}, g, other)

\* Lines 40-42
NumGenes(g) == Len(g.conn_genes) + Len(g.node_genes)

MaxOf(a, b) == IF a >= b THEN a ELSE b
MinOf(a, b) == IF a <= b THEN a ELSE b

\* The comparison of line 44, u*unmatched/N + w*(diff/n) < T, over the rationals:
\* both sides are multiplied by N*n > 0 (n = 0 leaves diff = 0, lines 36-39).
Below(cfg, unmatched, N, diff, n) ==
    IF n = 0
    THEN cfg.unmatched_genes_coeff * unmatched < cfg.compatibility_threshold * N
    ELSE cfg.unmatched_genes_coeff * unmatched * n + cfg.weight_diff_coeff * diff * N
            < cfg.compatibility_threshold * N * n

\* are_same_species(self, other, configs)
are_same_species(g, other, cfg) ==
    LET unmatched_genes == get_num_unmatched_node_genes(g, other)
        P == SharedPairs(g, other)
        n == Cardinality(P)
        diff == SumOver(P, g, other)
        N == MaxOf(NumGenes(g), NumGenes(other))
    IN  Below(cfg, unmatched_genes, N, diff, n)

\* ---------------------------------------------------------------- crossover

\* Mutant: ties go to second.
FittestOf_TiesToSecond(first, second) ==
    IF first.fitness > second.fitness THEN first ELSE second

\* Line 174
FittestOf(first, second) == IF first.fitness >= second.fitness THEN first ELSE second

\* Mutant: a matching gene is taken from both parents.
MatchingGene_Both(first, second, conn_innov) ==
    {<<get_conn_gene(first, conn_innov), get_conn_gene(second, conn_innov)>>}

\* Lines 186-188: a matching gene is taken from one parent, chosen at random.
MatchingGene(first, second, conn_innov) ==
    {<<get_conn_gene(first, conn_innov)>>, <<get_conn_gene(second, conn_innov)>>}

\* Lines 193-195: an unmatching gene is taken from the fittest parent, when it has it.
UnmatchingGene(fittest, conn_innov) ==
    LET gene == get_conn_gene(fittest, conn_innov)
    IN  IF gene # NoGene THEN {<<gene>>} ELSE {<<>>}

\* Lines 182-197: what one innovation number adds to conn_genes.
GenesFor(first, second, fittest, conn_innov) ==
    LET first_has_conn == has_weight(first, conn_innov)
        second_has_conn == has_weight(second, conn_innov)
    IN  IF first_has_conn /\ second_has_conn
        THEN MatchingGene(first, second, conn_innov)
        ELSE IF first_has_conn # second_has_conn
             THEN UnmatchingGene(fittest, conn_innov)
             ELSE {<<>>}

\* Lines 181-197: the lists conn_genes can hold after the loop over conn_innov..hi.
RECURSIVE CrossConns(_, _, _, _, _)
CrossConns(first, second, fittest, conn_innov, hi) ==
    IF conn_innov > hi THEN {<<>>}
    ELSE {h \o r : h \in GenesFor(first, second, fittest, conn_innov),
                   r \in CrossConns(first, second, fittest, conn_innov + 1, hi)}

\* Lines 172, 189-190, 196-197: the largest end index among the genes added.
RECURSIVE MaxEnd(_, _, _)
MaxEnd(conn_genes, k, max_hidden_node_idx) ==
    IF k > Len(conn_genes) THEN max_hidden_node_idx
    ELSE MaxEnd(conn_genes, k + 1,
                IF conn_genes[k].end > max_hidden_node_idx
                THEN conn_genes[k].end ELSE max_hidden_node_idx)

\* Mutant: one hidden node too few.
HiddenCount_OffByOne(max_hidden_node_idx, num_base) ==
    MaxOf(max_hidden_node_idx - num_base, 0)

\* Line 203: the number of hidden nodes generated (range of a negative number is empty).
HiddenCount(max_hidden_node_idx, num_base) ==
    MaxOf(max_hidden_node_idx - num_base + 1, 0)

\* Lines 201-203
CrossNodes(num_in, num_out, max_hidden_node_idx) ==
    LET base == BaseNodes(num_in, num_out)
        count == HiddenCount(max_hidden_node_idx, Len(base))
    IN  base \o [i \in 1..count |-> NodeGene(Len(base) + i - 1, "HIDDEN", 0)]

\* node_genes[node_idx] of a parent: the bias, or IndexError past the end of the list.
BiasAt(g, node_idx) ==
    IF node_idx < Len(g.node_genes)
    THEN [ok |-> TRUE, bias |-> g.node_genes[node_idx + 1].bias]
    ELSE [ok |-> FALSE, bias |-> 0]

\* Lines 206-215: the bias node_idx can inherit. In line 214 a Genome is compared with a
\* Network, which is never equal, so the fallback always reads second.network.
BiasFor(first, second, fittest, node_idx) ==
    LET first_has_node == has_node(first, node_idx)
        second_has_node == has_node(second, node_idx)
    IN  IF first_has_node /\ second_has_node
        THEN {BiasAt(first, node_idx), BiasAt(second, node_idx)}
        ELSE IF first_has_node # second_has_node
             THEN IF BiasAt(fittest, node_idx).ok
                  THEN {BiasAt(fittest, node_idx)}
                  ELSE {BiasAt(second, node_idx)}
             ELSE {[ok |-> TRUE, bias |-> 0]}

\* Lines 205-215: the node lists the loop can leave, or an uncaught IndexError.
RECURSIVE CrossBiases(_, _, _, _, _)
CrossBiases(first, second, fittest, node_genes, node_idx) ==
    IF node_idx >= Len(node_genes) THEN {[ok |-> TRUE, node_genes |-> node_genes]}
    ELSE UNION {
        IF b.ok
        THEN CrossBiases(first, second, fittest,
                         [node_genes EXCEPT ![node_idx + 1].bias = b.bias], node_idx + 1)
        ELSE {[ok |-> FALSE, node_genes |-> <<>>]}
        : b \in BiasFor(first, second, fittest, node_idx) }

\* Line 181: the innovation numbers the loop runs over.
InnovLo(first, second) ==
    MinOf(get_weight_innov_interval(first)[1], get_weight_innov_interval(second)[1])

InnovHi(first, second) ==
    MaxOf(get_weight_innov_interval(first)[2], get_weight_innov_interval(second)[2])

NoChild == create_from_network(0, 0, "", <<>>, <<>>)

\* crossover(first, second): every outcome of its random choices.
crossover(first, second) ==
    LET fittest == FittestOf(first, second)
        num_in == first.num_in
        num_out == first.num_out
    IN  UNION {
          { IF nb.ok
            THEN [status |-> "ok",
                  child |-> create_from_network(num_in, num_out, first.activation,
                                                nb.node_genes, conn_genes)]
            ELSE [status |-> "IndexError", child |-> NoChild]
            : nb \in CrossBiases(first, second, fittest,
                                 CrossNodes(num_in, num_out, MaxEnd(conn_genes, 1, -1)),
                                 num_in + num_out) }
          : conn_genes \in CrossConns(first, second, fittest,
                                      InnovLo(first, second), InnovHi(first, second)) }

\* ------------------------------------------------------------ state machine

\* Two genomes are constructed one after the other; the registry is shared.
Init ==
    \E s1 \in {FirstShape}, s2 \in Shapes, a1 \in {FirstActivation}, a2 \in Activations :
        LET reg1 == RegisterAll(<<>>, FreshPairs(s1[1], s1[2]), 1)
            reg2 == RegisterAll(reg1, FreshPairs(s2[1], s2[2]), 1)
        IN  /\ genomes = [i \in GenomeIds |->
                            IF i = 1 THEN NewGenome(s1[1], s1[2], a1, reg1)
                            ELSE NewGenome(s2[1], s2[2], a2, reg2)]
            /\ registry = reg2
            /\ calls = 0
            /\ ret = [op |-> "init"]

\* genomes[i].mutate_add_node(configs)
MutateAddNode(i, budget) ==
    /\ calls < budget
    /\ \E o \in mutate_add_node(genomes[i], registry) :
        /\ genomes' = [genomes EXCEPT ![i] = o.g]
        /\ registry' = o.reg
        /\ ret' = [op |-> "mutate_add_node", id |-> i, before |-> genomes[i],
                   none |-> o.none, conn_idx |-> o.conn_idx, pairs |-> o.pairs]
    /\ calls' = calls + 1

\* genomes[i].mutate_add_conn(configs, max_attemps)
MutateAddConn(i, budget) ==
    /\ calls < budget
    /\ \E max_attemps \in 0..MaxAttempts :
       \E o \in mutate_add_conn(genomes[i], registry, max_attemps) :
        /\ genomes' = [genomes EXCEPT ![i] = o.g]
        /\ registry' = o.reg
        /\ ret' = [op |-> "mutate_add_conn", id |-> i, before |-> genomes[i],
                   max_attemps |-> max_attemps, attempts |-> o.attempts,
                   formed |-> o.formed, pair |-> o.pair]
    /\ calls' = calls + 1

\* genomes[i].mutate_change_weight(configs)
MutateChangeWeight(i, budget) ==
    /\ calls < budget
    /\ \E g2 \in mutate_change_weight(genomes[i]) :
        /\ genomes' = [genomes EXCEPT ![i] = g2]
        /\ ret' = [op |-> "mutate_change_weight", id |-> i, before |-> genomes[i]]
    /\ calls' = calls + 1
    /\ UNCHANGED registry

\* genomes[i].mutate_change_threshold(configs)
MutateChangeThreshold(i, budget) ==
    /\ calls < budget
    /\ \E g2 \in mutate_change_threshold(genomes[i]) :
        /\ genomes' = [genomes EXCEPT ![i] = g2]
        /\ ret' = [op |-> "mutate_change_threshold", id |-> i, before |-> genomes[i]]
    /\ calls' = calls + 1
    /\ UNCHANGED registry

\* genomes[i].mutate_toggle_gene()
MutateToggleGene(i, budget) ==
    /\ calls < budget
    /\ \E g2 \in mutate_toggle_gene(genomes[i]) :
        /\ genomes' = [genomes EXCEPT ![i] = g2]
        /\ ret' = [op |-> "mutate_toggle_gene", id |-> i, before |-> genomes[i]]
    /\ calls' = calls + 1
    /\ UNCHANGED registry

\* genomes[i].mutate(configs), for every outcome of the five trials
Mutate(i, budget) ==
    /\ calls < budget
    /\ \E t \in [1..5 -> BOOLEAN] :
       \E o \in mutate(genomes[i], registry, t) :
        /\ genomes' = [genomes EXCEPT ![i] = o.g]
        /\ registry' = o.reg
        /\ ret' = [op |-> "mutate", id |-> i, before |-> genomes[i], trials |-> t,
                   status |-> o.status, conns |-> o.conns]
    /\ calls' = calls + 1

\* The caller assigns genomes[i].fitness (line 9 only initialises it).
AssignFitness(i) ==
    /\ \E f \in FitnessVals :
        /\ f # genomes[i].fitness
        /\ genomes' = [genomes EXCEPT ![i].fitness = f]
    /\ ret' = [op |-> "assign_fitness", id |-> i]
    /\ UNCHANGED <<registry, calls>>

\* genomes[i].are_same_species(genomes[j], configs)
AreSameSpecies(i, j) ==
    /\ i # j
    /\ \E cfg \in Configs :
        ret' = [op |-> "are_same_species", self |-> i, other |-> j, configs |-> cfg,
                val |-> are_same_species(genomes[i], genomes[j], cfg)]
    /\ UNCHANGED <<genomes, registry, calls>>

\* crossover(genomes[i], genomes[j])
Crossover(i, j) ==
    /\ i # j
    /\ \E o \in crossover(genomes[i], genomes[j]) :
        ret' = [op |-> "crossover", first |-> i, second |-> j,
                status |-> o.status, child |-> o.child]
    /\ UNCHANGED <<genomes, registry, calls>>

\* The five mutation operators, called on either genome.
Next ==
    \/ \E i \in GenomeIds : MutateAddNode(i, MaxCalls)
    \/ \E i \in GenomeIds : MutateAddConn(i, MaxCalls)
    \/ \E i \in GenomeIds : MutateChangeWeight(i, MaxCalls)
    \/ \E i \in GenomeIds : MutateChangeThreshold(i, MaxCalls)
    \/ \E i \in GenomeIds : MutateToggleGene(i, MaxCalls)

Spec == Init /\ [][Next]_vars

\* The five operators and mutate, which applies them by trial.
NextMutate ==
    \/ \E i \in GenomeIds : MutateAddNode(i, MaxCalls)
    \/ \E i \in GenomeIds : MutateAddConn(i, MaxCalls)
    \/ \E i \in GenomeIds : MutateChangeWeight(i, MaxCalls)
    \/ \E i \in GenomeIds : MutateChangeThreshold(i, MaxCalls)
    \/ \E i \in GenomeIds : MutateToggleGene(i, MaxCalls)
    \/ \E i \in GenomeIds : Mutate(i, MaxCalls)

SpecMutate == Init /\ [][NextMutate]_vars

\* The species test between genomes whose weights and topology have changed.
NextSpecies ==
    \/ \E i \in GenomeIds : MutateAddNode(i, MaxCalls)
    \/ \E i \in GenomeIds : MutateChangeWeight(i, MaxCalls)
    \/ \E i \in GenomeIds, j \in GenomeIds : AreSameSpecies(i, j)

SpecSpecies == Init /\ [][NextSpecies]_vars

\* Reproduction: mutated genomes, assigned a fitness, are crossed over.
NextCross ==
    \/ \E i \in GenomeIds : MutateAddNode(i, MaxCrossCalls)
    \/ \E i \in GenomeIds : MutateAddConn(i, MaxCrossCalls)
    \/ \E i \in GenomeIds : MutateChangeWeight(i, MaxCrossCalls)
    \/ \E i \in GenomeIds : MutateChangeThreshold(i, MaxCrossCalls)
    \/ \E i \in GenomeIds : MutateToggleGene(i, MaxCrossCalls)
    \/ \E i \in GenomeIds : AssignFitness(i)
    \/ \E i \in GenomeIds, j \in GenomeIds : Crossover(i, j)

SpecCross == Init /\ [][NextCross]_vars

\* ------------------------------------------------------------------ claims

ConnsOf(g) == {g.conn_genes[k] : k \in 1..Len(g.conn_genes)}

PairsOf(g) == {<<c.start, c.end>> : c \in ConnsOf(g)}

\* The number of enabled genes among the first n connection genes of g.
EnabledAmong(g, n) == Cardinality({k \in 1..n : g.conn_genes[k].enabled})

\* C1: every connection gene of every genome, and of every child returned by
\* crossover, runs from a higher node index to a lower one (start > end).
C1_Acyclic ==
    /\ \A i \in GenomeIds : \A c \in ConnsOf(genomes[i]) : c.start > c.end
    /\ (ret.op = "crossover" /\ ret.status = "ok")
            => \A c \in ConnsOf(ret.child) : c.start > c.end

\* C2 as stated: add_node on a genome with a connection gene always lowers the
\* number of enabled genes among the pre-existing connections by exactly one,
\* adds exactly two connection genes and exactly one node gene.
C2_AddNodeAlwaysDisablesOne ==
    (ret.op = "mutate_add_node" /\ Len(ret.before.conn_genes) >= 1) =>
        LET before == ret.before
            after == genomes[ret.id]
            n == Len(before.conn_genes)
        IN  /\ EnabledAmong(after, n) = EnabledAmong(before, n) - 1
            /\ Len(after.conn_genes) = n + 2
            /\ Len(after.node_genes) = Len(before.node_genes) + 1

\* C2 amended: add_node on a genome with a connection gene leaves the chosen
\* connection disabled and every other pre-existing gene as it was, so the number of
\* enabled pre-existing genes drops by one when the chosen connection was enabled
\* and by none when it was already disabled; it adds exactly two connection genes,
\* both enabled, and exactly one node gene.
C2_AddNodeEffect ==
    (ret.op = "mutate_add_node" /\ Len(ret.before.conn_genes) >= 1) =>
        LET before == ret.before
            after == genomes[ret.id]
            n == Len(before.conn_genes)
            chosen == ret.conn_idx
        IN  /\ ~ret.none
            /\ chosen \in 1..n
            /\ ~after.conn_genes[chosen].enabled
            /\ \A k \in 1..n : k # chosen => after.conn_genes[k] = before.conn_genes[k]
            /\ EnabledAmong(after, n) =
                 EnabledAmong(before, n) - (IF before.conn_genes[chosen].enabled THEN 1 ELSE 0)
            /\ Len(after.conn_genes) = n + 2
            /\ after.conn_genes[n + 1].enabled /\ after.conn_genes[n + 2].enabled
            /\ Len(after.node_genes) = Len(before.node_genes) + 1

\* add_node has split an enabled connection of a genome that also held a disabled one.
C2_Witness ==
    /\ ret.op = "mutate_add_node"
    /\ ret.before.conn_genes[ret.conn_idx].enabled
    /\ \E k \in 1..Len(ret.before.conn_genes) : ~ret.before.conn_genes[k].enabled

\* The (start,end) pairs of the genes a call has appended to g's connection genes.
NewPairs(before, after) ==
    [k \in 1..(Len(after.conn_genes) - Len(before.conn_genes)) |->
        <<after.conn_genes[Len(before.conn_genes) + k].start,
          after.conn_genes[Len(before.conn_genes) + k].end>>]

\* C3: whatever the five trials give, mutate completes without error and returns
\* the pairs of the connections it formed, add_node's two before add_conn's one.
C3_MutateCompletes ==
    ret.op = "mutate" =>
        /\ ret.status = "ok"
        /\ ret.conns = NewPairs(ret.before, genomes[ret.id])
        /\ (ret.trials[1] /\ Len(ret.before.conn_genes) >= 1) => Len(ret.conns) >= 2

\* C4: an innovation number carried by exactly one parent is in the child exactly
\* when that parent is the fittest, first being the fittest on first.fitness >=
\* second.fitness; with disjoint parents and first.fitness > second.fitness the
\* child's connection genes are exactly first's.
C4_UnmatchedFromFittest ==
    (ret.op = "crossover" /\ ret.status = "ok") =>
        LET first == genomes[ret.first]
            second == genomes[ret.second]
            firstWins == first.fitness >= second.fitness
            child == ret.child
        IN  /\ \A n \in Innovs(first) \ Innovs(second) : (n \in Innovs(child)) <=> firstWins
            /\ \A n \in Innovs(second) \ Innovs(first) : (n \in Innovs(child)) <=> ~firstWins
            /\ (Innovs(first) \cap Innovs(second) = {} /\ first.fitness > second.fitness)
                    => ConnsOf(child) = ConnsOf(first)

\* A crossover of equally fit parents, each carrying a gene the other lacks.
C4_Witness ==
    /\ ret.op = "crossover"
    /\ ret.status = "ok"
    /\ genomes[ret.first].fitness = genomes[ret.second].fitness
    /\ Innovs(genomes[ret.first]) \ Innovs(genomes[ret.second]) # {}
    /\ Innovs(genomes[ret.second]) \ Innovs(genomes[ret.first]) # {}

\* C5: every connection gene of the child carries an innovation number of a
\* parent, and the child's genes are in strictly increasing innovation order
\* (so no innovation number appears twice).
C5_ChildInnovations ==
    (ret.op = "crossover" /\ ret.status = "ok") =>
        LET conns == ret.child.conn_genes
        IN  /\ \A k \in 1..Len(conns) :
                 conns[k].innov \in Innovs(genomes[ret.first]) \cup Innovs(genomes[ret.second])
            /\ \A k \in 1..(Len(conns) - 1) : conns[k].innov < conns[k + 1].innov
            /\ Cardinality(Innovs(ret.child)) = Len(conns)

\* A child of several genes, one of them a matching gene.
C5_Witness ==
    /\ ret.op = "crossover"
    /\ ret.status = "ok"
    /\ Len(ret.child.conn_genes) >= 2
    /\ Innovs(genomes[ret.first]) \cap Innovs(genomes[ret.second]) # {}

Abs(x) == IF x < 0 THEN -x ELSE x

\* The sum of |weight(g1) - weight(g2)| over the shared pairs.
RECURSIVE AbsSumOver(_, _, _)
AbsSumOver(P, g, other) ==
    IF P = {} THEN 0
    ELSE LET p == CHOOSE q \in P : TRUE
         IN  Abs(g.conn_genes[p[1]].weight - other.conn_genes[p[2]].weight)
             + AbsSumOver(P \ {p}, g, other)

\* C6: are_same_species is true exactly when
\* unmatched_genes_coeff*unmatched/N + weight_diff_coeff*avg_diff < compatibility_threshold,
\* avg_diff being the mean absolute weight difference over the shared genes (0 if none).
C6_DistanceUsesAbsoluteDifference ==
    ret.op = "are_same_species" =>
        LET g == genomes[ret.self]
            other == genomes[ret.other]
            P == SharedPairs(g, other)
        IN  ret.val = Below(ret.configs, get_num_unmatched_node_genes(g, other),
                            MaxOf(NumGenes(g), NumGenes(other)),
                            AbsSumOver(P, g, other), Cardinality(P))

\* The valid candidates of add_conn on g: admissible ends, start > end, pair not present.
ValidPairs(g) ==
    {p \in start_valid_interval(g) \X UNION end_valid_intervals(g) :
        p[1] > p[2] /\ p \notin PairsOf(g)}

\* C7: add_conn draws at most max_attempts candidates; when it forms no connection
\* (as it must with max_attempts = 0 or with no valid pair left) the genome is
\* unchanged and the result is (False, (-1,-1)); a pair it forms was a valid one.
C7_AddConnBounded ==
    ret.op = "mutate_add_conn" =>
        LET before == ret.before
            after == genomes[ret.id]
        IN  /\ ret.attempts <= ret.max_attemps
            /\ (ret.max_attemps = 0 \/ ValidPairs(before) = {}) => ~ret.formed
            /\ ~ret.formed => /\ after = before
                              /\ ret.pair = <<-1, -1>>
                              /\ ret.attempts = ret.max_attemps
            /\ ret.formed => /\ ret.pair \in ValidPairs(before)
                             /\ Len(after.conn_genes) = Len(before.conn_genes) + 1

\* add_conn has used up its attempts although a valid pair was there to draw.
C7_Witness ==
    /\ ret.op = "mutate_add_conn"
    /\ ~ret.formed
    /\ ret.max_attemps > 0
    /\ ValidPairs(ret.before) # {}

\* C8: crossover of genomes that differ in num_in, num_out or activation is
\* rejected with an error and returns no child.
C8_MismatchRejected ==
    (/\ ret.op = "crossover"
     /\ \/ genomes[ret.first].num_in # genomes[ret.second].num_in
        \/ genomes[ret.first].num_out # genomes[ret.second].num_out
        \/ genomes[ret.first].activation # genomes[ret.second].activation)
        => ret.status # "ok"

\* C9: no two connection genes of a genome, enabled or not, have the same
\* (start,end) pair; the pair add_conn forms and the two pairs add_node forms
\* were not in the genome before.
C9_NoDuplicatePairs ==
    /\ \A i \in GenomeIds :
         \A k, l \in 1..Len(genomes[i].conn_genes) :
            (/\ genomes[i].conn_genes[k].start = genomes[i].conn_genes[l].start
             /\ genomes[i].conn_genes[k].end = genomes[i].conn_genes[l].end) => k = l
    /\ (ret.op = "mutate_add_conn" /\ ret.formed) => ret.pair \notin PairsOf(ret.before)
    /\ (ret.op = "mutate_add_node" /\ ~ret.none) =>
            /\ ret.pairs[1] \notin PairsOf(ret.before)
            /\ ret.pairs[2] \notin PairsOf(ret.before)
            /\ ret.pairs[1] # ret.pairs[2]

\* add_conn has formed a connection in a genome that holds a disabled one.
C9_Witness ==
    /\ ret.op = "mutate_add_conn"
    /\ ret.formed
    /\ \E c \in ConnsOf(ret.before) : ~c.enabled

\* C10: the child of two genomes of the same I/O shape has node genes of indices
\* 0..k in order (outputs, inputs, hidden), and both ends of each of its
\* connection genes are indices of its node genes.
C10_ChildReferentialIntegrity ==
    (/\ ret.op = "crossover"
     /\ ret.status = "ok"
     /\ genomes[ret.first].num_in = genomes[ret.second].num_in
     /\ genomes[ret.first].num_out = genomes[ret.second].num_out) =>
        LET child == ret.child
            nodes == child.node_genes
        IN  /\ \A k \in 1..Len(nodes) :
                 /\ nodes[k].index = k - 1
                 /\ nodes[k].type = IF k <= child.num_out THEN "OUTPUT"
                                    ELSE IF k <= child.num_out + child.num_in THEN "INPUT"
                                    ELSE "HIDDEN"
            /\ Len(nodes) >= child.num_in + child.num_out
            /\ \A c \in ConnsOf(child) :
                 /\ c.start \in 0..(Len(nodes) - 1)
                 /\ c.end \in 0..(Len(nodes) - 1)

\* A child of same-shape parents with a connection gene that stems from a hidden node.
C10_Witness ==
    /\ ret.op = "crossover"
    /\ ret.status = "ok"
    /\ genomes[ret.first].num_in = genomes[ret.second].num_in
    /\ genomes[ret.first].num_out = genomes[ret.second].num_out
    /\ \E c \in ConnsOf(ret.child) : c.start >= ret.child.num_in + ret.child.num_out

====
